---- MODULE Spec2Model ----
(***************************************************************************)
(* Model of pIcom.py: the Radio base class (serial session, sendCmd,       *)
(* readResponse, BCD conversion) and the Icom7100 command set.             *)
(*                                                                         *)
(* Bytes are integers 0..255.  Python strings are sequences of one         *)
(* character strings, so that str(), zfill(), slicing, upper() and int()   *)
(* are computed character by character as the interpreter does.            *)
(***************************************************************************)
EXTENDS Integers, Sequences, FiniteSets, TLC

(***************************************************************************)
(* Bounds of the model.                                                    *)
(***************************************************************************)
\* largest argument of the BCD round trip
MaxBcd == 9999
\* the frequencies tried are the multiples k * FreqStride, k \in 0..MaxFreqIdx
MaxFreqIdx == 10026
\* number of setBaud calls and radio operations run on one session
MaxOps == 2
\* number of reads of one session that the transport lets time out
MaxEmpty == 1

FreqStride == 9973

(***************************************************************************)
(* Python values.                                                          *)
(***************************************************************************)
None == [some |-> FALSE, v |-> <<>>]
Some(s) == [some |-> TRUE, v |-> s]

DigitChars == <<"0", "1", "2", "3", "4", "5", "6", "7", "8", "9">>

IsDigit(ch) == \E i \in 1..10 : DigitChars[i] = ch

DigitVal(ch) == (CHOOSE i \in 1..10 : DigitChars[i] = ch) - 1

\* str(n) for an int n >= 0
RECURSIVE StrInt(_)
StrInt(n) == IF n < 10 THEN <<DigitChars[n + 1]>>
             ELSE Append(StrInt(n \div 10), DigitChars[(n % 10) + 1])

\* str(x) for a float x = ip.fd in positional notation: the digits of the
\* integer part, a point, the digits of the fraction (fd has no trailing
\* zero, and is <<0>> for a whole number: str(146.520) = '146.52',
\* str(146.0) = '146.0')
StrFloat(ip, fd) == StrInt(ip) \o <<".">> \o [i \in 1..Len(fd) |-> DigitChars[fd[i] + 1]]

\* str(freq) of a frequency argument
Str(freq) == IF freq.t = "int" THEN StrInt(freq.n) ELSE StrFloat(freq.n, freq.d)

\* s.zfill(width) of a string without a sign
zfill(s, width) == IF Len(s) >= width THEN s
                   ELSE [i \in 1..(width - Len(s)) |-> "0"] \o s

Max(a, b) == IF a > b THEN a ELSE b

\* s[a:b] for negative a and b (counted from the end, clamped to the string)
PySlice(s, a, b) == SubSeq(s, Max(Len(s) + a, 0) + 1, Max(Len(s) + b, 0))

\* s[i] for a negative index i
PyAt(s, i) == <<s[Len(s) + i + 1]>>

\* int(s): base 10, ValueError unless s is a non-empty string of digits
IntOk(s) == Len(s) > 0 /\ \A i \in 1..Len(s) : IsDigit(s[i])

RECURSIVE IntOf(_)
IntOf(s) == IF Len(s) = 0 THEN 0
            ELSE IntOf(SubSeq(s, 1, Len(s) - 1)) * 10 + DigitVal(s[Len(s)])

\* x << n on Python's unbounded ints
Shl(x, n) == IF x = 0 THEN 0 ELSE x * 2^n

(***************************************************************************)
(* Radio.convert_from_bcd                                                  *)
(***************************************************************************)
RECURSIVE from_bcd_loop(_, _, _)
from_bcd_loop(bcd, place, decimal) ==
    IF bcd > 0
    THEN from_bcd_loop(bcd \div 16, place * 10, decimal + (bcd % 16) * place)
    ELSE decimal

convert_from_bcd(bcd) == from_bcd_loop(bcd, 1, 0)

(***************************************************************************)
(* Radio.convert_to_bcd.  Under Python 3 "decimal /= 10" is a float        *)
(* division: after k passes the local is the float n / 10^k.  The float is *)
(* kept as the pair (n, k); int(decimal % 10) is the last digit of its     *)
(* integer part.  Once the integer part is 0 the float is still positive   *)
(* for some 323 more passes, until it underflows to 0.0; each of these     *)
(* passes adds 0 << place, so they are taken in one step.                  *)
(***************************************************************************)
\* the integer part of n / 10^k
RECURSIVE IntPart(_, _)
IntPart(n, k) == IF k = 0 \/ n = 0 THEN n ELSE IntPart(n \div 10, k - 1)

\* the nibble taken modulo 16 instead of modulo 10
to_bcd_nibble_m(n, k) == IntPart(n, k) % 16

\* int(decimal % 10) for the float n / 10^k
to_bcd_nibble(n, k) == IntPart(n, k) % 10

RECURSIVE to_bcd_loop(_, _, _, _)
to_bcd_loop(n, k, place, bcd) ==
    IF IntPart(n, k) > 0
    THEN to_bcd_loop(n, k + 1, place + 4, bcd + Shl(to_bcd_nibble(n, k), place))
    ELSE bcd

convert_to_bcd(decimal) == to_bcd_loop(decimal, 0, 0, 0)

(***************************************************************************)
(* Icom7100 class constants and buildCommand                               *)
(***************************************************************************)
PREAMBLE == <<254, 254>>
TRANSCEIVER_ADDR == <<136>>
CONTROLLER_ADDR == <<224>>
EOM == <<253>>

\* the two addresses in the other order
buildCommand_m(cmd, subcmd, data) ==
    LET base_cmd == PREAMBLE \o CONTROLLER_ADDR \o TRANSCEIVER_ADDR
        ncmd0 == base_cmd \o cmd
        ncmd1 == IF subcmd.some THEN ncmd0 \o subcmd.v ELSE ncmd0
        ncmd2 == IF data.some THEN ncmd1 \o data.v ELSE ncmd1
    IN  ncmd2 \o EOM

\* the terminator appended only to a frame without data
buildCommand_noeom(cmd, subcmd, data) ==
    LET base_cmd == PREAMBLE \o TRANSCEIVER_ADDR \o CONTROLLER_ADDR
        ncmd0 == base_cmd \o cmd
        ncmd1 == IF subcmd.some THEN ncmd0 \o subcmd.v ELSE ncmd0
    IN  IF data.some THEN ncmd1 \o data.v ELSE ncmd1 \o EOM

buildCommand(cmd, subcmd, data) ==
    LET base_cmd == PREAMBLE \o TRANSCEIVER_ADDR \o CONTROLLER_ADDR
        ncmd0 == base_cmd \o cmd
        ncmd1 == IF subcmd.some THEN ncmd0 \o subcmd.v ELSE ncmd0
        ncmd2 == IF data.some THEN ncmd1 \o data.v ELSE ncmd1
    IN  ncmd2 \o EOM

(***************************************************************************)
(* Icom7100.setOpFreq, up to the frame: the string, its five slices and    *)
(* their BCD bytes.  int() of a slice that is not all digits raises.       *)
(***************************************************************************)
\* the string cut in pairs from its end
setOpFreq_tarr_m(freq) ==
    LET nfreq == zfill(Str(freq), 8)
    IN  <<SubSeq(nfreq, Len(nfreq) - 1, Len(nfreq)), PySlice(nfreq, -4, -2),
          PySlice(nfreq, -6, -4), PySlice(nfreq, -8, -6), <<nfreq[1]>> >>

setOpFreq_tarr(freq) ==
    LET nfreq == zfill(Str(freq), 8)
    IN  <<PyAt(nfreq, -1), PySlice(nfreq, -3, -1), PySlice(nfreq, -5, -3),
          PySlice(nfreq, -7, -5), <<nfreq[1]>> >>

setOpFreq_raises(freq) == \E i \in 1..5 : ~IntOk(setOpFreq_tarr(freq)[i])

setOpFreq_data(freq) ==
    LET tarr == setOpFreq_tarr(freq)
    IN  [i \in 1..5 |-> convert_to_bcd(IntOf(tarr[i]))]

setOpFreq_frame(freq) == buildCommand(<<0>>, None, Some(setOpFreq_data(freq)))

(***************************************************************************)
(* Icom7100.readOpFreq, after the reads: resp[9], ..., resp[5] (0-based)   *)
(* decoded and weighted by 1e7, 1e5, 1e3, 10, 1.                           *)
(***************************************************************************)
freq_c == <<10000000, 100000, 1000, 10, 1>>

readOpFreq_raises(resp) == Len(resp) < 10

readOpFreq_freqs(resp) == [j \in 1..5 |-> convert_from_bcd(resp[11 - j])]

readOpFreq_freq(resp) ==
    LET freqs == readOpFreq_freqs(resp)
    IN  freqs[1] * freq_c[1] + freqs[2] * freq_c[2] + freqs[3] * freq_c[3]
        + freqs[4] * freq_c[4] + freqs[5] * freq_c[5]

(***************************************************************************)
(* str.upper()                                                             *)
(***************************************************************************)
LowerChars == <<"a", "b", "c", "d", "e", "f", "g", "h", "i", "j", "k", "l", "m",
                "n", "o", "p", "q", "r", "s", "t", "u", "v", "w", "x", "y", "z">>
UpperChars == <<"A", "B", "C", "D", "E", "F", "G", "H", "I", "J", "K", "L", "M",
                "N", "O", "P", "Q", "R", "S", "T", "U", "V", "W", "X", "Y", "Z">>

UpperCh(ch) == IF \E i \in 1..26 : LowerChars[i] = ch
               THEN UpperChars[CHOOSE i \in 1..26 : LowerChars[i] = ch]
               ELSE ch

Upper(s) == [i \in 1..Len(s) |-> UpperCh(s[i])]

\* the digits read in base 10
RECURSIVE HexOf_m(_)
HexOf_m(s) == IF Len(s) = 0 THEN 0
              ELSE HexOf_m(SubSeq(s, 1, Len(s) - 1)) * 10 + DigitVal(s[Len(s)])

\* int(s, 0) of the literal '0x' + s, s a string of decimal digits
RECURSIVE HexOf(_)
HexOf(s) == IF Len(s) = 0 THEN 0
            ELSE HexOf(SubSeq(s, 1, Len(s) - 1)) * 16 + DigitVal(s[Len(s)])

(***************************************************************************)
(* Arguments of the public operations: a Python value with its type.       *)
(***************************************************************************)
ArgNone == [t |-> "none", n |-> 0, d |-> <<>>, s |-> <<>>]
ArgInt(n) == [t |-> "int", n |-> n, d |-> <<>>, s |-> <<>>]
ArgFloat(ip, fd) == [t |-> "float", n |-> ip, d |-> fd, s |-> <<>>]
ArgStr(s) == [t |-> "str", n |-> 0, d |-> <<>>, s |-> s]

(***************************************************************************)
(* The tables of the Icom7100 methods                                      *)
(***************************************************************************)
\* the table with the counts in descending order of the baud rates
preamble_rpts_m == [b \in {19200, 9600, 4800, 1200, 300} |->
                      CASE b = 19200 -> 25
                        [] b = 9600 -> 17
                        [] b = 4800 -> 13
                        [] b = 1200 -> 3
                        [] b = 300 -> 2]

preamble_rpts == [b \in {19200, 9600, 4800, 1200, 300} |->
                    CASE b = 19200 -> 25
                      [] b = 9600 -> 13
                      [] b = 4800 -> 17
                      [] b = 1200 -> 3
                      [] b = 300 -> 2]

mem_banks == {<< <<"A">>, 1>>, << <<"B">>, 2>>, << <<"C">>, 3>>,
              << <<"D">>, 4>>, << <<"E">>, 5>>}

chan_dict == {<< <<"1", "A">>, <<1, 0>> >>,
              << <<"1", "B">>, <<1, 1>> >>,
              << <<"2", "A">>, <<1, 2>> >>,
              << <<"2", "B">>, <<1, 3>> >>,
              << <<"3", "A">>, <<1, 4>> >>,
              << <<"3", "B">>, <<1, 5>> >>,
              << <<"1", "4", "4", "-", "C", "1">>, <<1, 6>> >>,
              << <<"1", "4", "4", "-", "C", "2">>, <<1, 7>> >>,
              << <<"4", "3", "0", "-", "C", "1">>, <<1, 8>> >>,
              << <<"4", "3", "0", "-", "C", "2">>, <<1, 9>> >>}

mode_dict == {<< <<"L", "S", "B">>, <<0>> >>,
              << <<"U", "S", "B">>, <<1>> >>,
              << <<"A", "M">>, <<2>> >>,
              << <<"C", "W">>, <<3>> >>,
              << <<"R", "T", "T", "Y">>, <<4>> >>,
              << <<"F", "M">>, <<5>> >>,
              << <<"W", "F", "M">>, <<6>> >>,
              << <<"C", "W", "-", "R">>, <<7>> >>,
              << <<"R", "T", "T", "Y", "-", "R">>, <<8>> >>,
              << <<"D", "V">>, <<23>> >>}

\* key in dict, dict[key]
HasKey(dict, key) == \E e \in dict : e[1] = key
Lookup(dict, key) == (CHOOSE e \in dict : e[1] = key)[2]

(***************************************************************************)
(* What a public operation does before its first transport call: it        *)
(* raises, or returns after printing, or hands a frame to sendCmd.         *)
(*   raises  the exception raised, "" if none                              *)
(*   prints  the messages printed                                          *)
(*   send    whether sendCmd is called, with frame                         *)
(*   clear   whether readResponse is called after sendCmd                  *)
(***************************************************************************)
Raise(e) == [raises |-> e, prints |-> {}, send |-> FALSE, frame |-> <<>>, clear |-> FALSE]
Quit(msgs) == [raises |-> "", prints |-> msgs, send |-> FALSE, frame |-> <<>>, clear |-> FALSE]
Send(f, cl) == [raises |-> "", prints |-> {}, send |-> TRUE, frame |-> f, clear |-> cl]

turnOn(baud) ==
    IF baud \notin DOMAIN preamble_rpts THEN Raise("KeyError")
    ELSE LET on_prefix == [i \in 1..preamble_rpts[baud] |-> PREAMBLE[1]]
         IN  Send(on_prefix \o buildCommand(<<24>>, Some(<<1>>), None), TRUE)

turnOff == Send(buildCommand(<<24>>, Some(<<0>>), None), TRUE)

\* selectVFO without the test that a subcommand was chosen
selectVFO_m(a) ==
    LET subcmd == IF Upper(a.s) = <<"A">> THEN Some(<<0>>)
                  ELSE IF Upper(a.s) = <<"B">> THEN Some(<<1>>)
                  ELSE None
    IN  Send(buildCommand(<<7>>, subcmd, None), TRUE)

selectVFO(a) ==
    LET subcmd == IF Upper(a.s) = <<"A">> THEN Some(<<0>>)
                  ELSE IF Upper(a.s) = <<"B">> THEN Some(<<1>>)
                  ELSE None
    IN  IF subcmd.some THEN Send(buildCommand(<<7>>, subcmd, None), TRUE)
        ELSE Quit({"Error: Incorrect channel provided"})

selectMemory == Send(buildCommand(<<8>>, None, None), TRUE)

selectMemBank(a) ==
    IF ~HasKey(mem_banks, Upper(a.s)) THEN Raise("KeyError")
    ELSE Send(buildCommand(<<8>>, Some(<<160>>), Some(<<Lookup(mem_banks, Upper(a.s))>>)), TRUE)

selectMemChannel(a) ==
    LET badType == a.t # "none" /\ a.t # "int" /\ a.t # "str"
        badStr == a.t = "str" /\ ~HasKey(chan_dict, Upper(a.s))
        ichannel == IF a.t = "int" /\ a.n <= 99 THEN Some(<<HexOf(StrInt(a.n))>>)
                    ELSE IF a.t = "str" /\ ~badStr THEN Some(Lookup(chan_dict, Upper(a.s)))
                    ELSE None
    IN  IF ichannel.some THEN Send(buildCommand(<<8>>, ichannel, None), TRUE)
        ELSE Quit((IF badType THEN {"Error: Channel must be an integer or String"} ELSE {})
                  \cup (IF badStr THEN {"Error: Unexpected String received"} ELSE {})
                  \cup {"Error: No Channel Provided"})

readOpFreq == Send(buildCommand(<<3>>, None, None), TRUE)

setOpFreq(a) ==
    IF setOpFreq_raises(a) THEN Raise("ValueError")
    ELSE Send(setOpFreq_frame(a), FALSE)

readOpMode == Send(buildCommand(<<4>>, None, None), TRUE)

setOpMode(a) ==
    IF a.t # "none" /\ HasKey(mode_dict, Upper(a.s))
    THEN IF ~HasKey(mode_dict, a.s) THEN Raise("KeyError")
         ELSE Send(buildCommand(<<6>>, None, Some(Lookup(mode_dict, a.s))), TRUE)
    ELSE Quit({})

setRx == Send(buildCommand(<<28>>, Some(<<0>>), Some(<<0>>)), TRUE)

setTx == Send(buildCommand(<<28>>, Some(<<0>>), Some(<<1>>)), TRUE)

Plan(o, baud) ==
    CASE o.name = "turnOn" -> turnOn(baud)
      [] o.name = "turnOff" -> turnOff
      [] o.name = "selectVFO" -> selectVFO(o.arg)
      [] o.name = "selectMemory" -> selectMemory
      [] o.name = "selectMemBank" -> selectMemBank(o.arg)
      [] o.name = "selectMemChannel" -> selectMemChannel(o.arg)
      [] o.name = "readOpFreq" -> readOpFreq
      [] o.name = "setOpFreq" -> setOpFreq(o.arg)
      [] o.name = "readOpMode" -> readOpMode
      [] o.name = "setOpMode" -> setOpMode(o.arg)
      [] o.name = "setRx" -> setRx
      [] o.name = "setTx" -> setTx

(***************************************************************************)
(* The radio on the other end of the line, as the comments of              *)
(* readResponse, readOpFreq and readOpMode describe it: the first response *)
(* is a copy of the command sent, the second is the reply: OK (FB), NG     *)
(* (FA), or the data of a read command.  The radio may also be silent, or  *)
(* only the copy may come back.                                            *)
(***************************************************************************)
ReplyOK == <<254, 254, 224, 136, 251, 253>>
ReplyNG == <<254, 254, 224, 136, 250, 253>>
\* 146.520 MHz: 10hz,1hz  1khz,100hz  100khz,10khz  10mhz,1mhz  1ghz,100mhz
ReplyFreq == <<254, 254, 224, 136, 3, 0, 0, 82, 70, 1, 253>>
\* FM, filter 1
ReplyMode == <<254, 254, 224, 136, 4, 5, 1, 253>>

RECURSIVE StripPreamble(_)
StripPreamble(f) == IF Len(f) > 0 /\ f[1] = 254 THEN StripPreamble(Tail(f)) ELSE f

RadioReplies(frame) ==
    LET body == StripPreamble(frame)
        code == IF Len(body) >= 3 THEN body[3] ELSE 0
    IN  CASE code = 3 -> {ReplyFreq, ReplyNG}
          [] code = 4 -> {ReplyMode, ReplyNG}
          [] OTHER -> {ReplyOK, ReplyNG}

RadioAnswers(frame) == {<<>>, frame} \cup {frame \o r : r \in RadioReplies(frame)}

(***************************************************************************)
(* State                                                                   *)
(***************************************************************************)
VARIABLES
    serial,     \* self._serial: "None" or "Serial"
    nOpen,      \* number of serial handles open in the process
    hlog,       \* transport calls of the last connect / disconnect
    baudrate,   \* self._baudrate
    rx,         \* bytes the open handle has received and not yet handed out
    pc,         \* "idle", or where the running operation is: "write", "echo", "reply"
    op,         \* the running or last operation and its argument
    cmd,        \* the frame handed to sendCmd
    wrote,      \* bytes written by the operation, in order
    c,          \* readResponse: c
    reply,      \* readResponse: reply
    delivered,  \* bytes the transport handed to the running readResponse
    resp,       \* value returned by the last readResponse
    got,        \* bytes the transport handed to the last readResponse
    echo,       \* value returned by the readResponse of sendCmd
    status,     \* what the last readResponse printed: "Ok", "Rejected", "None"
    nresp,      \* readResponse calls the operation has completed
    printed,    \* messages printed by the operation
    value,      \* numbers printed by readOpFreq / readOpMode
    outcome,    \* "none", "running", "returned" or the exception raised
    empties,    \* reads of the session that timed out
    opsLeft,    \* operations still to run
    fn,         \* the function last evaluated on its own, its input and result
    inp,
    out

vars == <<serial, nOpen, hlog, baudrate, rx, pc, op, cmd, wrote, c, reply,
          delivered, resp, got, echo, status, nresp, printed, value, outcome,
          empties, opsLeft, fn, inp, out>>

codec == <<fn, inp, out>>

Init ==
    /\ serial = "None"
    /\ nOpen = 0
    /\ hlog = <<>>
    /\ baudrate = 19200
    /\ rx = <<>>
    /\ pc = "idle"
    /\ op = [name |-> "__init__", arg |-> ArgNone]
    /\ cmd = <<>>
    /\ wrote = <<>>
    /\ c = 0
    /\ reply = <<>>
    /\ delivered = <<>>
    /\ resp = <<>>
    /\ got = <<>>
    /\ echo = <<>>
    /\ status = "None"
    /\ nresp = 0
    /\ printed = {}
    /\ value = <<>>
    /\ outcome = "none"
    /\ empties = 0
    /\ opsLeft = MaxOps
    /\ fn = "none"
    /\ inp = <<>>
    /\ out = <<>>

\* a new call starts: nothing is left of the call before
NewCall(o) ==
    /\ op' = o
    /\ wrote' = <<>>
    /\ c' = 0
    /\ reply' = <<>>
    /\ delivered' = <<>>
    /\ resp' = <<>>
    /\ got' = <<>>
    /\ echo' = <<>>
    /\ status' = "None"
    /\ nresp' = 0
    /\ value' = <<>>

(***************************************************************************)
(* Radio.setBaud, Radio.connect, Radio.disconnect                          *)
(***************************************************************************)
Bauds == {19200, 9600, 4800, 1200, 300, 115200}

setBaud(baud) ==
    /\ pc = "idle"
    /\ opsLeft > 0
    /\ opsLeft' = opsLeft - 1
    /\ baud # baudrate
    /\ baudrate' = baud
    /\ NewCall([name |-> "setBaud", arg |-> ArgInt(baud)])
    /\ cmd' = <<>> /\ printed' = {} /\ hlog' = <<>>
    /\ outcome' = "returned"
    /\ UNCHANGED <<serial, nOpen, rx, pc, empties, codec>>

\* "if self._serial is not None" of disconnect
disconnect_closes(s) == s # "None"

\* connect that opens without looking at the handle it holds
connect_disconnects_m(s) == FALSE

\* "if self._serial is not None" of connect
connect_disconnects(s) == s # "None"

\* the transport calls of disconnect
disconnect_calls(s) == IF disconnect_closes(s) THEN <<"flush", "close">> ELSE <<>>

disconnect ==
    /\ pc = "idle"
    /\ hlog' = disconnect_calls(serial)
    /\ nOpen' = IF disconnect_closes(serial) THEN nOpen - 1 ELSE nOpen
    /\ serial' = "None"
    /\ rx' = <<>>
    /\ NewCall([name |-> "disconnect", arg |-> ArgNone])
    /\ cmd' = <<>> /\ printed' = {}
    /\ outcome' = "returned"
    /\ UNCHANGED <<baudrate, pc, empties, opsLeft, codec>>

\* serial.Serial(...) opens the port or raises
connect ==
    /\ pc = "idle"
    /\ \E opened \in BOOLEAN :
        LET disc == connect_disconnects(serial)
            calls == IF disc THEN disconnect_calls(serial) ELSE <<>>
            closed == IF disc /\ disconnect_closes(serial) THEN 1 ELSE 0
            held == IF disc THEN "None" ELSE serial
        IN  /\ hlog' = calls \o (IF opened THEN <<"open">> ELSE <<"open fails">>)
            /\ nOpen' = nOpen - closed + (IF opened THEN 1 ELSE 0)
            /\ serial' = IF opened THEN "Serial" ELSE held
            /\ rx' = IF opened \/ disc THEN <<>> ELSE rx
            /\ outcome' = IF opened THEN "returned" ELSE "SerialException"
    /\ NewCall([name |-> "connect", arg |-> ArgNone])
    /\ cmd' = <<>> /\ printed' = {}
    /\ UNCHANGED <<baudrate, pc, empties, opsLeft, codec>>

(***************************************************************************)
(* The Icom7100 operations: the call, up to the first transport call       *)
(***************************************************************************)
S(str) == ArgStr(str)

OpInputs ==
    {[name |-> n, arg |-> ArgNone] :
        n \in {"turnOn", "turnOff", "selectMemory", "readOpFreq", "readOpMode",
               "setRx", "setTx", "selectMemChannel", "setOpMode"}}
    \cup {[name |-> "selectVFO", arg |-> a] :
            a \in {S(<<"A">>), S(<<"b">>), S(<<"C">>)}}
    \cup {[name |-> "selectMemBank", arg |-> a] :
            a \in {S(<<"A">>), S(<<"e">>), S(<<"F">>)}}
    \cup {[name |-> "selectMemChannel", arg |-> a] :
            a \in {ArgInt(12), ArgInt(100), S(<<"1", "a">>), S(<<"z", "z">>),
                   ArgFloat(1, <<5>>)}}
    \cup {[name |-> "setOpFreq", arg |-> a] :
            a \in {ArgInt(14652000), ArgFloat(146, <<5, 2>>)}}
    \cup {[name |-> "setOpMode", arg |-> a] :
            a \in {S(<<"F", "M">>), S(<<"f", "m">>), S(<<"X", "Y", "Z">>)}}

Call(o) ==
    /\ pc = "idle"
    /\ opsLeft > 0
    /\ opsLeft' = opsLeft - 1
    /\ NewCall(o)
    /\ hlog' = <<>>
    /\ LET p == Plan(o, baudrate)
       IN  /\ printed' = p.prints
           /\ cmd' = p.frame
           /\ IF p.send /\ serial # "None"
              THEN pc' = "write" /\ outcome' = "running"
              ELSE /\ pc' = "idle"
                   /\ outcome' = IF p.send THEN "AttributeError"
                                 ELSE IF p.raises # "" THEN p.raises
                                 ELSE "returned"
    /\ UNCHANGED <<serial, nOpen, baudrate, rx, empties, codec>>

(***************************************************************************)
(* Radio.sendCmd: the write loop, one byte a step.  The radio answers      *)
(* when it has seen the end of a frame.                                    *)
(***************************************************************************)
\* the write loop left one byte early
sendCmd_written_m(f, w) == Len(w) >= Len(f) - 1

\* "for c in cmd" is exhausted
sendCmd_written(f, w) == Len(w) = Len(f)

WriteByte ==
    /\ pc = "write"
    /\ LET b == cmd[Len(wrote) + 1]
           w == Append(wrote, b)
       IN  /\ wrote' = w
           /\ \E ans \in (IF b = 253 THEN RadioAnswers(w) ELSE {<<>>}) :
                rx' = rx \o ans
           /\ pc' = IF sendCmd_written(cmd, w) THEN "echo" ELSE "write"
    /\ UNCHANGED <<serial, nOpen, hlog, baudrate, op, cmd, c, reply, delivered,
                   resp, got, echo, status, nresp, printed, value, outcome,
                   empties, opsLeft, codec>>

(***************************************************************************)
(* Radio.readResponse: the read loop, one read a step, and what follows    *)
(* the loop in readResponse and in its caller.                             *)
(***************************************************************************)
\* the classification without the test of the length
Classify_m(r) ==
    IF Len(r) >= 5
    THEN IF r[5] = 251 THEN "Ok"
         ELSE IF r[5] = 250 THEN "Rejected"
         ELSE "None"
    ELSE "None"

\* what readResponse prints after its loop
Classify(r) ==
    IF Len(r) = 6
    THEN IF r[5] = 251 THEN "Ok"
         ELSE IF r[5] = 250 THEN "Rejected"
         ELSE "None"
    ELSE "None"

StatusMsg(st) == CASE st = "Ok" -> {"Command OK!"}
                   [] st = "Rejected" -> {"Command No Good!"}
                   [] OTHER -> {}

\* "c = d[0]" when the read delivered a byte, then "reply.append(c)"
readResponse_c(d, cur) == IF Len(d) > 0 THEN d[1] ELSE cur

\* the rest of readOpFreq / readOpMode once the reply is read
AfterReply(o, r) ==
    CASE o.name = "readOpFreq" ->
            IF readOpFreq_raises(r) THEN [outcome |-> "IndexError", value |-> <<>>]
            ELSE [outcome |-> "returned",
                  value |-> Append(readOpFreq_freqs(r), readOpFreq_freq(r))]
      [] o.name = "readOpMode" ->
            IF Len(r) < 7 THEN [outcome |-> "IndexError", value |-> <<>>]
            ELSE [outcome |-> "returned",
                  value |-> <<convert_from_bcd(r[6]), convert_from_bcd(r[7])>>]
      [] OTHER -> [outcome |-> "returned", value |-> <<>>]

\* d is what self._serial.read(1) returned: <<>> or one byte
ReadStep(d) ==
    LET c1 == readResponse_c(d, c)
        r1 == Append(reply, c1)
        d1 == delivered \o d
    IN  IF c1 # 253
        THEN /\ c' = c1
             /\ reply' = r1
             /\ delivered' = d1
             /\ UNCHANGED <<pc, resp, got, echo, status, nresp, printed, value,
                            outcome>>
        ELSE /\ c' = 0
             /\ reply' = <<>>
             /\ delivered' = <<>>
             /\ resp' = r1
             /\ got' = d1
             /\ status' = Classify(r1)
             /\ nresp' = nresp + 1
             /\ IF pc = "echo"
                THEN /\ echo' = r1
                     /\ printed' = printed \cup StatusMsg(Classify(r1))
                            \cup (IF r1 # cmd
                                  THEN {"Error: Initial response does not match command!"}
                                  ELSE {})
                     /\ value' = value
                     /\ IF Plan(op, baudrate).clear
                        THEN pc' = "reply" /\ outcome' = outcome
                        ELSE pc' = "idle" /\ outcome' = "returned"
                ELSE /\ echo' = echo
                     /\ printed' = printed \cup StatusMsg(Classify(r1))
                     /\ value' = AfterReply(op, r1).value
                     /\ outcome' = AfterReply(op, r1).outcome
                     /\ pc' = "idle"

Reading == pc \in {"echo", "reply"}

ReadByte ==
    /\ Reading
    /\ rx # <<>>
    /\ ReadStep(<<Head(rx)>>)
    /\ rx' = Tail(rx)
    /\ UNCHANGED <<serial, nOpen, hlog, baudrate, op, cmd, wrote, empties,
                   opsLeft, codec>>

ReadEmpty ==
    /\ Reading
    /\ empties < MaxEmpty
    /\ empties' = empties + 1
    /\ ReadStep(<<>>)
    /\ UNCHANGED <<serial, nOpen, hlog, baudrate, rx, op, cmd, wrote,
                   opsLeft, codec>>

Next ==
    \/ \E b \in Bauds : setBaud(b)
    \/ connect
    \/ disconnect
    \/ \E o \in OpInputs : Call(o)
    \/ WriteByte
    \/ ReadByte
    \/ ReadEmpty

Spec == Init /\ [][Next]_vars

\* The session on the transport connect builds: serial.Serial(port,
\* baudrate=...) has no timeout, so read(1) returns only with a byte and
\* otherwise waits.  The interpreter keeps running the operation: a write
\* is made, and a read returns when a byte is there for it.
NextBlocking ==
    \/ \E b \in Bauds : setBaud(b)
    \/ connect
    \/ disconnect
    \/ \E o \in OpInputs : Call(o)
    \/ WriteByte
    \/ ReadByte

FairSpec == Init /\ [][NextBlocking]_vars /\ WF_vars(WriteByte) /\ WF_vars(ReadByte)

(***************************************************************************)
(* The pure functions evaluated on their own                               *)
(***************************************************************************)
session == <<serial, nOpen, hlog, baudrate, rx, pc, op, cmd, wrote, c, reply,
             delivered, resp, got, echo, status, nresp, printed, value,
             outcome, empties, opsLeft>>

\* each function is applied once, to an input drawn from its bounded set

\* convert_from_bcd(convert_to_bcd(n))
EvalBcd(n) ==
    /\ fn = "none"
    /\ fn' = "bcd"
    /\ inp' = <<n>>
    /\ out' = <<convert_to_bcd(n), convert_from_bcd(convert_to_bcd(n))>>
    /\ UNCHANGED session

BuildCmds == {<<3>>, <<0>>, <<8>>, <<24>>, <<255>>}
BuildSubcmds == {None, Some(<<0>>), Some(<<160>>), Some(<<1, 9>>)}
BuildDatas == {None, Some(<<1>>), Some(<<0, 0, 82, 70, 1>>), Some(<<>>)}

EvalBuild(bcmd, subcmd, data) ==
    /\ fn = "none"
    /\ fn' = "build"
    /\ inp' = <<bcmd, subcmd, data>>
    /\ out' = buildCommand(bcmd, subcmd, data)
    /\ UNCHANGED session

FreqInputs == {(k * FreqStride) % (10^8) : k \in 0..MaxFreqIdx}
                \cup {14652000, 99999999}

\* the payload setOpFreq puts in its frame, read back the way readOpFreq
\* reads the payload of a reply
EvalFreq(f) ==
    /\ fn = "none"
    /\ fn' = "freq"
    /\ inp' = <<f>>
    /\ LET data == setOpFreq_data(ArgInt(f))
           answer == <<254, 254, 224, 136, 3>> \o data \o EOM
       IN  out' = <<data, readOpFreq_freq(answer)>>
    /\ UNCHANGED session

\* str.lower(), to write the names of the tables in the other letter case
LowerCh(ch) == IF \E i \in 1..26 : UpperChars[i] = ch
               THEN LowerChars[CHOOSE i \in 1..26 : UpperChars[i] = ch]
               ELSE ch

Lower(s) == [i \in 1..Len(s) |-> LowerCh(s[i])]

BothCases(dict) == {ArgStr(e[1]) : e \in dict} \cup {ArgStr(Lower(e[1])) : e \in dict}

\* the operations with the arguments their tables and tests admit
PlanInputs ==
    {<<[name |-> n, arg |-> ArgNone], 19200>> :
        n \in {"turnOff", "selectMemory", "readOpFreq", "readOpMode", "setRx", "setTx"}}
    \cup {<<[name |-> "turnOn", arg |-> ArgNone], b>> : b \in DOMAIN preamble_rpts}
    \cup {<<[name |-> "selectVFO", arg |-> a], 19200>> :
            a \in {S(<<"A">>), S(<<"a">>), S(<<"B">>), S(<<"b">>)}}
    \cup {<<[name |-> "selectMemBank", arg |-> a], 19200>> : a \in BothCases(mem_banks)}
    \cup {<<[name |-> "selectMemChannel", arg |-> ArgInt(n)], 19200>> : n \in 0..99}
    \cup {<<[name |-> "selectMemChannel", arg |-> a], 19200>> : a \in BothCases(chan_dict)}
    \cup {<<[name |-> "setOpFreq", arg |-> ArgInt(f)], 19200>> : f \in FreqInputs}
    \cup {<<[name |-> "setOpMode", arg |-> a], 19200>> : a \in BothCases(mode_dict)}

\* what the operation does up to sendCmd, on its own
EvalPlan(o, baud) ==
    /\ fn = "none"
    /\ fn' = "plan"
    /\ inp' = <<o, baud>>
    /\ out' = Plan(o, baud)
    /\ UNCHANGED session

NextCodec ==
    \/ fn = "none" /\ \E n \in 0..MaxBcd : EvalBcd(n)
    \/ fn = "none" /\ \E bcmd \in BuildCmds, subcmd \in BuildSubcmds, data \in BuildDatas :
            EvalBuild(bcmd, subcmd, data)
    \/ fn = "none" /\ \E f \in FreqInputs : EvalFreq(f)
    \/ fn = "none" /\ \E i \in PlanInputs : EvalPlan(i[1], i[2])

SpecCodec == Init /\ [][NextCodec]_vars

(***************************************************************************)
(* Properties                                                              *)
(***************************************************************************)
IsPrefix(p, q) == Len(p) <= Len(q) /\ p = SubSeq(q, 1, Len(p))

EndsAtFirstEom(r) == /\ Len(r) > 0
                     /\ r[Len(r)] = 253
                     /\ \A i \in 1..(Len(r) - 1) : r[i] # 253

\* C1: an operation that has written a frame and returned has completed
\* exactly two response reads after writing the whole frame.
C1_EveryOpReadsTwice ==
    (pc = "idle" /\ outcome = "returned" /\ wrote # <<>>)
        => (nresp = 2 /\ wrote = cmd)

\* C2: the value readResponse returns is exactly the bytes the transport
\* delivered to it, in order, ending at the first 0xFD.
C2_ReturnsWhatWasDelivered ==
    nresp > 0 => (resp = got /\ EndsAtFirstEom(resp))

\* C3: a read loop that waits on a transport which holds no 0xFD and will
\* get none eventually ends.
C3_ReadLoopTerminates ==
    (Reading /\ \A i \in 1..Len(rx) : rx[i] # 253) ~> ~Reading

\* C4: at most one handle is open and it is the one the session holds;
\* connect on a session that holds a handle flushes and closes it before it
\* opens the new one; after disconnect no handle is held, and disconnect
\* without a handle calls nothing.
C4_HandleState ==
    /\ nOpen <= 1
    /\ (nOpen = 1) <=> (serial # "None")
    /\ op.name = "disconnect" => (serial = "None" /\ nOpen = 0)

C4_HandleStep ==
    /\ (pc = "idle" /\ op'.name = "connect" /\ serial # "None")
         => (Len(hlog') = 3 /\ SubSeq(hlog', 1, 2) = <<"flush", "close">>
             /\ hlog'[3] \in {"open", "open fails"})
    /\ (pc = "idle" /\ op'.name = "connect" /\ serial = "None")
         => (Len(hlog') = 1 /\ hlog'[1] \in {"open", "open fails"})
    /\ (pc = "idle" /\ op'.name = "disconnect" /\ serial # "None")
         => hlog' = <<"flush", "close">>
    /\ (pc = "idle" /\ op'.name = "disconnect" /\ serial = "None")
         => (hlog' = <<>> /\ nOpen' = nOpen /\ serial' = serial)

C4_OneHandle == []C4_HandleState /\ [][C4_HandleStep]_vars

C4_Witness ==
    op.name = "connect" /\ hlog = <<"flush", "close", "open">> /\ nOpen = 1

\* C5: the bytes written are always a prefix of the frame, and whenever a
\* read of the operation has begun the bytes written are the whole frame
\* the operation built.
C5_WriteBeforeRead ==
    /\ pc # "idle" => IsPrefix(wrote, cmd)
    /\ (Reading \/ nresp > 0)
         => (wrote = cmd /\ cmd = Plan(op, baudrate).frame)

C5_Witness ==
    pc = "echo" /\ reply = <<>> /\ nresp = 0 /\ Len(wrote) = 32 /\ wrote = cmd

\* C6: the reply just read is reported Ok exactly when it has 6 bytes with
\* 0xFB at index 4, Rejected exactly when it has 6 bytes with 0xFA at index
\* 4, and otherwise gets neither report; the bytes go back to the caller.
C6_Classification ==
    nresp > 0 =>
        /\ (status = "Ok") <=> (Len(resp) = 6 /\ resp[5] = 251)
        /\ (status = "Rejected") <=> (Len(resp) = 6 /\ resp[5] = 250)
        /\ status \in {"Ok", "Rejected", "None"}
        /\ status = "Ok" => "Command OK!" \in printed
        /\ status = "Rejected" => "Command No Good!" \in printed
        /\ (nresp = 1 => echo = resp)

C6_Witness ==
    /\ nresp = 2 /\ status = "Rejected" /\ resp = ReplyNG
    /\ "Command No Good!" \in printed

\* C7: buildCommand returns FE FE 88 E0, the command, the subcommand if
\* given, the data if given, and FD; buildCommand([0x03]) is FE FE 88 E0 03 FD.
C7_Frame ==
    fn = "build" =>
        LET bcmd == inp[1]
            subcmd == inp[2]
            data == inp[3]
            n == 4 + Len(bcmd) + Len(subcmd.v) + Len(data.v) + 1
        IN  /\ Len(out) = n
            /\ SubSeq(out, 1, 4) = <<254, 254, 136, 224>>
            /\ SubSeq(out, 5, 4 + Len(bcmd)) = bcmd
            /\ SubSeq(out, 5 + Len(bcmd), 4 + Len(bcmd) + Len(subcmd.v)) = subcmd.v
            /\ SubSeq(out, 5 + Len(bcmd) + Len(subcmd.v), n - 1) = data.v
            /\ out[n] = 253
            /\ (bcmd = <<3>> /\ ~subcmd.some /\ ~data.some)
                  => out = <<254, 254, 136, 224, 3, 253>>

C7_Witness ==
    /\ fn = "build" /\ inp[1] = <<8>> /\ inp[2] = Some(<<160>>) /\ inp[3] = Some(<<1>>)
    /\ out = <<254, 254, 136, 224, 8, 160, 1, 253>>

\* C8: convert_from_bcd(convert_to_bcd(n)) = n, and nibble i of
\* convert_to_bcd(n) is decimal digit i of n.
C8_BcdRoundTrip ==
    fn = "bcd" =>
        /\ out[2] = inp[1]
        /\ \A i \in 0..3 : (out[1] \div 16^i) % 16 = (inp[1] \div 10^i) % 10

C8_Witness == fn = "bcd" /\ inp[1] = 9999 /\ out[1] = 39321

\* C9: the 5 payload bytes setOpFreq emits for an integer of at most 8
\* digits, decoded as readOpFreq decodes reply bytes 9 down to 5, give the
\* integer back.
C9_FreqRoundTrip ==
    fn = "freq" => (Len(out[1]) = 5 /\ out[2] = inp[1])

C9_Witness ==
    fn = "freq" /\ inp[1] = 14652000 /\ out[1] = <<0, 0, 82, 70, 1>>

\* C10: setOpFreq called with a decimal number of MHz returns normally after
\* writing the frame FE FE 88 E0 00, 5 payload bytes, FD.
C10_AcceptsMHz ==
    (pc = "idle" /\ op.name = "setOpFreq" /\ op.arg.t = "float" /\ serial # "None")
        => /\ outcome = "returned"
           /\ Len(wrote) = 11
           /\ SubSeq(wrote, 1, 5) = <<254, 254, 136, 224, 0>>
           /\ wrote[11] = 253


\* C11: on an open port turnOn writes, for a baud rate of the table, the
\* table's number of 0xFE bytes (19200: 25, 9600: 13, 4800: 17, 1200: 3,
\* 300: 2), then FE FE 88 E0 18 01 FD, and nothing else; for another baud
\* rate it raises with nothing written.
C11_LeadIn ==
    LET n == CASE baudrate = 19200 -> 25
               [] baudrate = 9600 -> 13
               [] baudrate = 4800 -> 17
               [] baudrate = 1200 -> 3
               [] baudrate = 300 -> 2
               [] OTHER -> 0
        frame == [i \in 1..n |-> 254] \o <<254, 254, 136, 224, 24, 1, 253>>
        inTable == baudrate \in {19200, 9600, 4800, 1200, 300}
    IN  (op.name = "turnOn" /\ serial # "None") =>
            /\ inTable => IsPrefix(wrote, frame)
            /\ (inTable /\ pc # "write") => wrote = frame
            /\ ~inTable => (pc = "idle" /\ outcome = "KeyError" /\ wrote = <<>>
                            /\ nresp = 0)

C11_Witness ==
    /\ op.name = "turnOn" /\ baudrate = 4800 /\ pc = "idle"
    /\ outcome = "returned" /\ Len(wrote) = 24 /\ nresp = 2


\* the special channel names in the order of their codes 0x00..0x09
ChannelNames == << <<"1", "A">>, <<"1", "B">>, <<"2", "A">>, <<"2", "B">>,
                   <<"3", "A">>, <<"3", "B">>,
                   <<"1", "4", "4", "-", "C", "1">>, <<"1", "4", "4", "-", "C", "2">>,
                   <<"4", "3", "0", "-", "C", "1">>, <<"4", "3", "0", "-", "C", "2">> >>

\* C12: selectMemChannel hands sendCmd the frame FE FE 88 E0 08 b FD with
\* b = 16 * (c div 10) + (c mod 10) for an integer c in 0..99, and the frame
\* FE FE 88 E0 08 01 i FD for the special name number i, in either letter case.
C12_ChannelMapping ==
    (fn = "plan" /\ inp[1].name = "selectMemChannel") =>
        LET a == inp[1].arg
            bytes == IF a.t = "int"
                     THEN <<16 * (a.n \div 10) + (a.n % 10)>>
                     ELSE <<1, (CHOOSE i \in 1..10 : ChannelNames[i] = Upper(a.s)) - 1>>
        IN  /\ out.raises = ""
            /\ out.send
            /\ out.clear
            /\ out.frame = <<254, 254, 136, 224, 8>> \o bytes \o <<253>>

C12_Witness ==
    /\ fn = "plan" /\ inp[1].name = "selectMemChannel" /\ inp[1].arg = ArgInt(12)
    /\ out.frame = <<254, 254, 136, 224, 8, 18, 253>>


\* C13: setOpMode with a string that is not a mode name reports an error to
\* its caller and writes nothing.
C13_UnknownModeRejected ==
    (pc = "idle" /\ op.name = "setOpMode" /\ op.arg.t = "str"
        /\ Upper(op.arg.s) \notin {e[1] : e \in mode_dict})
        => /\ wrote = <<>>
           /\ (outcome # "returned" \/ printed # {})

\* the arguments the operations turn down
BadArgument(o) ==
    \/ o.name = "selectVFO" /\ Upper(o.arg.s) \notin {<<"A">>, <<"B">>}
    \/ o.name = "selectMemBank"
         /\ Upper(o.arg.s) \notin {<<"A">>, <<"B">>, <<"C">>, <<"D">>, <<"E">>}
    \/ o.name = "selectMemChannel"
         /\ \/ o.arg.t = "none"
            \/ o.arg.t \notin {"none", "int", "str"}
            \/ o.arg.t = "int" /\ o.arg.n > 99
            \/ o.arg.t = "str" /\ \A i \in 1..10 : ChannelNames[i] # Upper(o.arg.s)

\* C14: an operation called with an argument it turns down ends at once with
\* nothing written and nothing read, and leaves the handle, the bytes waiting
\* in the transport and the baud rate as they were.
C14_NoIoState ==
    BadArgument(op) =>
        /\ pc = "idle"
        /\ wrote = <<>> /\ cmd = <<>>
        /\ nresp = 0 /\ reply = <<>> /\ delivered = <<>> /\ resp = <<>>
        /\ outcome \in {"returned", "KeyError"}

C14_NoIoStep ==
    (pc = "idle" /\ BadArgument(op'))
        => UNCHANGED <<serial, nOpen, baudrate, rx, empties>>

C14_FailFast == []C14_NoIoState /\ [][C14_NoIoStep]_vars

C14_Witness ==
    /\ op.name = "selectVFO" /\ op.arg.s = <<"C">>
    /\ serial = "Serial" /\ rx # <<>>
    /\ printed = {"Error: Incorrect channel provided"}

\* C15: when an operation begins to write its frame no byte of an earlier
\* answer waits in the transport, and, no read having timed out, the echo
\* read returns the frame sent and no mismatch is reported.
C15_Alternation ==
    /\ (pc = "write" /\ wrote = <<>>) => rx = <<>>
    /\ (nresp >= 1 /\ empties = 0)
         => /\ echo = cmd
            /\ "Error: Initial response does not match command!" \notin printed


\* C16: the 5 payload bytes of the set-frequency frame are the BCD bytes of
\* the last 2 digits of the zero-padded string, of digits 3-4, 5-6 and 7-8
\* from its end, and of its single leading digit (the 9th from the end, or
\* the first character of the string).
C16_PayloadSlices ==
    fn = "freq" =>
        LET f == inp[1]
            pair(i) == (f \div 100^(i - 1)) % 100
            bcd(p) == 16 * (p \div 10) + (p % 10)
        IN  /\ \A i \in 1..4 : out[1][i] = bcd(pair(i))
            /\ out[1][5] \in {(f \div 10^8) % 10, (f \div 10^7) % 10}


\* C17: once sendCmd has reported an echo mismatch the port stays open, and
\* the operation ends having made its reply read and returned.  An
\* IndexError that readOpFreq or readOpMode raises on the length of the
\* reply it then read is not held against the operation here: it comes from
\* the reply, with or without a mismatch before it.
C17_MismatchDoesNotAbort ==
    "Error: Initial response does not match command!" \in printed
        => /\ serial = "Serial" /\ nOpen = 1
           /\ pc \in {"reply", "idle"}
           /\ pc = "idle" => (nresp = 2 /\ outcome \in {"returned", "IndexError"})


\* C18: a frame that an operation hands to sendCmd for an accepted argument
\* holds 0xFD once, as its last byte.
C18_OneTerminator ==
    (fn = "plan" /\ out.send) =>
        /\ Len(out.frame) >= 6
        /\ out.frame[Len(out.frame)] = 253
        /\ Cardinality({i \in 1..Len(out.frame) : out.frame[i] = 253}) = 1

C18_Witness ==
    /\ fn = "plan" /\ inp[1].name = "setOpFreq" /\ inp[1].arg.n = 99999999
    /\ out.frame = <<254, 254, 136, 224, 0, 9, 153, 153, 153, 9, 253>>

\* C19: setOpMode called with a mode name in any letter case returns
\* normally after writing FE FE 88 E0 06 m FD, m the code of the mode.
C19_ModeAnyCase ==
    (pc = "idle" /\ op.name = "setOpMode" /\ op.arg.t = "str"
        /\ Upper(op.arg.s) = <<"F", "M">> /\ serial # "None")
        => /\ outcome = "returned"
           /\ wrote = <<254, 254, 136, 224, 6, 5, 253>>

====
